---- MODULE Spec2Model ----
(***************************************************************************)
(* The task lifecycle of the file compression bot: src/handlers.py         *)
(* (handle_document, compress_callback, cmd_cancel) and the zip branch of  *)
(* compress_file in src/zip-utils.py.                                      *)
(*                                                                         *)
(* The handlers are coroutines on one event loop: a handler runs without   *)
(* interruption from one await to the next, so every action below is the   *)
(* code between two awaits of one handler (or of one engine task).         *)
(*                                                                         *)
(* Rendering a reply and sending it (get_message(...) handed to            *)
(* message.answer, bot.send_document, bot.download) is a call to the       *)
(* presentation layer: it returns or it raises, and the handlers are       *)
(* modelled for both outcomes (\E ok \in BOOLEAN).  The message table of   *)
(* src/strings.py is therefore not part of this state machine.             *)
(*                                                                         *)
(* A reply that ends a handler has no effect on the state: the handler is  *)
(* modelled up to the await of that reply.                                 *)
(***************************************************************************)
EXTENDS Integers, Sequences, FiniteSets, TLC

\* ---------------------------------------------------------------- bounds
NumUsers == 2
NumNames == 2
\* distinct (requester, file name) uploads in one behaviour
MaxFiles == 2
\* uploads accepted and format buttons pressed in one behaviour
MaxEvents == 3
\* size of the file compress_file is followed on, in bytes
MaxSize == 100
\* chunk sizes (CHUNK_SIZE of src/config.py:25, scaled down), in bytes
MaxChunkSize == 2
\* size of the file whose message edits are followed, in bytes
MaxEditSize == 3
\* the clock of the message edits stops here
MaxTime == 2
\* compress_callback executions in flight at one time
MaxCallbacks == 2
\* size of an uploaded file, in chunks of CHUNK_SIZE
NumChunks == 2
\* src/config.py:16 sets 5; the model checks the cap scaled down
MAX_CONCURRENT_TASKS == 1

Users == 1..NumUsers
Names == 1..NumNames
Slots == 1..MaxCallbacks

\* ----------------------------------------------------------------- paths
\* handlers.py:121-125  os.path.join(TEMP_DIR, str(user_id), file_name)
InPath(u, n) == <<"in", u, n>>
\* zip-utils.py:71  os.path.join(TEMP_DIR, stem(file_name) + ".zip")
OutPath(n) == <<"out", 0, n>>
\* zip-utils.py:87  os.path.join(TEMP_DIR, "chunk_" + file_name)
ChunkPath(n) == <<"chunk", 0, n>>

Paths ==
    {InPath(u, n) : u \in Users, n \in Names}
        \cup {OutPath(n) : n \in Names} \cup {ChunkPath(n) : n \in Names}

\* disk[p] of a file that no engine task in flight created: a downloaded
\* input copy, or what an execution that has exited left behind
Kept == MaxCallbacks + 1

VARIABLES
    files,             \* the (requester, file name) pairs that get uploaded
    user_tasks,        \* handlers.py:26   dict user_id -> dict
    concurrent_tasks,  \* handlers.py:28
    disk,              \* the files under TEMP_DIR: path -> 0 (no file), the
                       \* slot of the engine task that created it, or Kept
    buttons,           \* the (user, file) pairs whose format keyboard was sent
    hd,                \* per user: the handle_document coroutine in flight
    cb,                \* per slot: one compress_callback execution in flight
    task,              \* per slot: the asyncio task running compress_file
    events,            \* the uploads accepted and buttons pressed so far
    eng,               \* one call of compress_file followed byte by byte
    ui,                \* the message edits that call has asked for
    msg                \* one call of get_message of src/strings.py

vars ==
    <<files, user_tasks, concurrent_tasks, disk, buttons, hd, cb, task, events,
      eng, ui, msg>>

\* ------------------------------------------------------------ dictionaries
EmptyDict == [k \in {} |-> 0]
Put(e, k, v) == (k :> v) @@ e
Range(s) == {s[i] : i \in DOMAIN s}

\* dict.get("temp_files", [])
TempFiles(e) == IF "temp_files" \in DOMAIN e THEN e.temp_files ELSE <<>>

\* os.remove of every path of S that exists
RemoveAll(d, S) == [p \in Paths |-> IF p \in S THEN 0 ELSE d[p]]

\* compress_file before its call: the file of size bytes is read in chunks
\* of chunk_size bytes; chunk: the bytes <<from, to>> held by the temporary
\* chunk file; members: the archive; emitted: the percent values handed to
\* the progress callback
NoEngine ==
    [pc |-> "none", size |-> 0, chunk_size |-> 0, total_size |-> 0,
     processed_size |-> 0, bytes_read |-> 0, chunk |-> <<>>,
     members |-> <<>>, emitted |-> <<>>]

\* fwd: the edits handed to bot.edit_message_text so far, the edit tasks
\* starting in the order of their creation; done: those of them that have
\* returned or raised; now: the time, in minimum intervals between two
\* edits; last_fwd: the time of the latest edit handed over, -1 before it;
\* pending: the edits handed over and not yet ended, as indices of
\* eng.emitted; shown: the percent values the message has displayed, in the
\* order the edits were applied; completed: compress_callback has gone on
\* from its await of the task to the completion message of :215
NoEdits ==
    [fwd |-> 0, done |-> 0, now |-> 0, last_fwd |-> 0 - 1, pending |-> {},
     shown |-> <<>>, completed |-> FALSE]

\* get_message before its call
NoCall ==
    [pc |-> "none", key |-> "", lang |-> "", kwargs |-> EmptyDict,
     exc |-> "none", value |-> <<>>]

\* incs: the increments of concurrent_tasks this execution has made;
\* cancel_live: cmd_cancel was issued by the requester while the task of
\* this execution was live; redl: the input path was downloaded again since
\* this execution began
IdleCb ==
    [pc |-> "idle", u |-> 0, n |-> 0, incs |-> 0,
     cancel_live |-> FALSE, redl |-> FALSE]

NoTask == [st |-> "none", k |-> 0, cancel_req |-> FALSE, result |-> "none"]

\* asyncio.Task.done(); the handle 0 stands for a task whose handler has
\* exited, which is done for good
Done(t) == t = 0 \/ task[t].st = "done"
\* a task that was created and has not finished
Live(c) == task[c].st \notin {"none", "done"}

\* handlers.py:101  the requester's entry holds a task that is not done
ActiveTask(u) ==
    /\ u \in DOMAIN user_tasks
    /\ "task" \in DOMAIN user_tasks[u]
    /\ ~Done(user_tasks[u].task)

Init ==
    /\ files \in {S \in SUBSET (Users \X Names) :
                    <<1, 1>> \in S /\ Cardinality(S) = MaxFiles}
    /\ user_tasks = [u \in {} |-> EmptyDict]
    /\ concurrent_tasks = 0
    /\ disk = [p \in Paths |-> 0]
    /\ buttons = {}
    /\ hd = [u \in Users |-> [pc |-> "idle", n |-> 0]]
    /\ cb = [c \in Slots |-> IdleCb]
    /\ task = [c \in Slots |-> NoTask]
    /\ events = 0
    /\ eng = NoEngine
    /\ ui = NoEdits
    /\ msg = NoCall

\* ------------------------------------------------------- handle_document
\* handle_document with the entry initialised (:111) before the check of
\* :101 instead of after it
handle_document_init_first(u, n) ==
    /\ hd[u].pc = "idle"
    /\ <<u, n>> \in files
    /\ IF ActiveTask(u)
       THEN /\ hd' = [hd EXCEPT ![u] = [pc |-> "busy", n |-> n]]
            /\ user_tasks' = (u :> [temp_files |-> <<>>]) @@ user_tasks
            /\ UNCHANGED events
       ELSE IF concurrent_tasks >= MAX_CONCURRENT_TASKS
       THEN /\ hd' = [hd EXCEPT ![u] = [pc |-> "full", n |-> n]]
            /\ UNCHANGED <<user_tasks, events>>
       ELSE /\ events < MaxEvents
            /\ events' = events + 1
            /\ user_tasks' =
                (u :> [temp_files |-> <<InPath(u, n)>>]) @@ user_tasks
            /\ hd' = [hd EXCEPT ![u] = [pc |-> "replying", n |-> n]]
    /\ UNCHANGED <<msg, eng, ui, files, concurrent_tasks, disk, buttons, cb, task>>

\* handle_document with the cap test of :106 written > instead of >=
handle_document_cap_gt(u, n) ==
    /\ hd[u].pc = "idle"
    /\ <<u, n>> \in files
    /\ IF ActiveTask(u)
       THEN /\ hd' = [hd EXCEPT ![u] = [pc |-> "busy", n |-> n]]
            /\ UNCHANGED <<user_tasks, events>>
       ELSE IF concurrent_tasks > MAX_CONCURRENT_TASKS
       THEN /\ hd' = [hd EXCEPT ![u] = [pc |-> "full", n |-> n]]
            /\ UNCHANGED <<user_tasks, events>>
       ELSE /\ events < MaxEvents
            /\ events' = events + 1
            /\ user_tasks' =
                (u :> [temp_files |-> <<InPath(u, n)>>]) @@ user_tasks
            /\ hd' = [hd EXCEPT ![u] = [pc |-> "replying", n |-> n]]
    /\ UNCHANGED <<msg, eng, ui, files, concurrent_tasks, disk, buttons, cb, task>>

\* handlers.py:93-129: from the call to the first await of the accepted path
handle_document(u, n) ==
    /\ hd[u].pc = "idle"
    /\ <<u, n>> \in files
    /\ IF ActiveTask(u)
       THEN \* :102 the reply "processing", then return
            /\ hd' = [hd EXCEPT ![u] = [pc |-> "busy", n |-> n]]
            /\ UNCHANGED <<user_tasks, events>>
       ELSE IF concurrent_tasks >= MAX_CONCURRENT_TASKS
       THEN \* :107 the reply "error_general", then return
            /\ hd' = [hd EXCEPT ![u] = [pc |-> "full", n |-> n]]
            /\ UNCHANGED <<user_tasks, events>>
       ELSE /\ events < MaxEvents
            /\ events' = events + 1
            /\ user_tasks' =
                (u :> [temp_files |-> <<InPath(u, n)>>]) @@ user_tasks
            /\ hd' = [hd EXCEPT ![u] = [pc |-> "replying", n |-> n]]
    /\ UNCHANGED <<msg, eng, ui, files, concurrent_tasks, disk, buttons, cb, task>>

\* handlers.py:102-103 and 107-108: the reply of a rejection returned
hd_rejected(u) ==
    /\ hd[u].pc \in {"busy", "full"}
    /\ hd' = [hd EXCEPT ![u] = [pc |-> "idle", n |-> 0]]
    /\ UNCHANGED <<msg, eng, ui, files, user_tasks, concurrent_tasks, disk, buttons, cb, task, events>>

\* handlers.py:129-133: the replies returned, bot.download writes the file
hd_download(u) ==
    /\ hd[u].pc = "replying"
    /\ \E ok \in BOOLEAN :
        IF ok
        THEN /\ disk' = [disk EXCEPT ![InPath(u, hd[u].n)] = Kept]
             /\ cb' = [c \in Slots |->
                        IF cb[c].pc # "idle" /\ cb[c].u = u /\ cb[c].n = hd[u].n
                        THEN [cb[c] EXCEPT !.redl = TRUE] ELSE cb[c]]
             /\ hd' = [hd EXCEPT ![u].pc = "downloading"]
        ELSE /\ hd' = [hd EXCEPT ![u].pc = "failed"]
             /\ UNCHANGED <<disk, cb>>
    /\ UNCHANGED <<msg, eng, ui, files, user_tasks, concurrent_tasks, buttons, task,
                   events>>

\* handlers.py:133-148: the download ended; the file is no archive, the
\* format keyboard is sent
hd_finish(u) ==
    /\ hd[u].pc = "downloading"
    /\ \E ok \in BOOLEAN :
        IF ok
        THEN /\ buttons' = buttons \cup {<<u, hd[u].n>>}
             /\ hd' = [hd EXCEPT ![u] = [pc |-> "idle", n |-> 0]]
        ELSE /\ hd' = [hd EXCEPT ![u].pc = "failed"]
             /\ UNCHANGED buttons
    /\ UNCHANGED <<msg, eng, ui, files, user_tasks, concurrent_tasks, disk, cb, task,
                   events>>

\* handlers.py:150-162: the except block; the clean-up runs only if the
\* error reply itself returned
hd_except(u) ==
    /\ hd[u].pc = "failed"
    /\ hd' = [hd EXCEPT ![u] = [pc |-> "idle", n |-> 0]]
    /\ \E ok \in BOOLEAN :
        IF ok /\ u \in DOMAIN user_tasks
        THEN /\ disk' = RemoveAll(disk, Range(TempFiles(user_tasks[u])))
             /\ user_tasks' = [user_tasks EXCEPT ![u] = EmptyDict]
        ELSE UNCHANGED <<disk, user_tasks>>
    /\ UNCHANGED <<msg, eng, ui, files, concurrent_tasks, buttons, cb, task, events>>

\* ------------------------------------------------------------ cmd_cancel
\* cancel_live of every execution of requester u whose task is live
NoteCancel(u) ==
    [c \in Slots |->
        IF cb[c].u = u /\ task[c].st \notin {"none", "done"}
        THEN [cb[c] EXCEPT !.cancel_live = TRUE] ELSE cb[c]]

\* handlers.py:69-87: the entry holds a task handle; the reply is
\* "task_cancelled"
cmd_cancel_task(u) ==
    /\ u \in DOMAIN user_tasks /\ "task" \in DOMAIN user_tasks[u]
    /\ task' = IF Done(user_tasks[u].task) THEN task
               ELSE [task EXCEPT ![user_tasks[u].task].cancel_req = TRUE]
    /\ disk' = RemoveAll(disk, Range(TempFiles(user_tasks[u])))
    /\ user_tasks' = [user_tasks EXCEPT ![u] = EmptyDict]
    /\ cb' = NoteCancel(u)
    /\ UNCHANGED <<msg, eng, ui, files, concurrent_tasks, buttons, hd, events>>

\* handlers.py:88-89: the reply is "no_active_task"
cmd_cancel_none(u) ==
    /\ ~(u \in DOMAIN user_tasks /\ "task" \in DOMAIN user_tasks[u])
    /\ cb' = NoteCancel(u)
    /\ UNCHANGED <<msg, eng, ui, files, user_tasks, concurrent_tasks, disk, buttons, hd, task, events>>

\* handlers.py:64-89
cmd_cancel(u) == cmd_cancel_task(u) \/ cmd_cancel_none(u)

\* ----------------------------------------------------- compress_callback
\* The handler of slot c returns (or an exception leaves it): the slot is
\* free again; the task it awaited is done, a handle to it that an entry
\* still holds becomes the handle 0, the files it created are Kept.
ReleaseHandle(ut, c) ==
    [v \in DOMAIN ut |->
        IF "task" \in DOMAIN ut[v] /\ ut[v].task = c
        THEN Put(ut[v], "task", 0) ELSE ut[v]]

ReleaseFiles(d, c) == [p \in Paths |-> IF d[p] = c THEN Kept ELSE d[p]]

\* handlers.py:166-170: the requester presses a format button
cb_start(c, u, n) ==
    /\ events < MaxEvents
    /\ cb[c].pc = "idle"
    /\ \A b \in Slots : b < c => cb[b].pc # "idle"
    /\ <<u, n>> \in buttons
    /\ events' = events + 1
    /\ cb' = [cb EXCEPT ![c] = [IdleCb EXCEPT !.pc = "answering", !.u = u, !.n = n]]
    /\ UNCHANGED <<msg, eng, ui, files, user_tasks, concurrent_tasks, disk, buttons, hd, task>>

\* cb_check with the increment of :188 made before the file check of :177,
\* outside the try
cb_check_increment_first(c) ==
    LET u == cb[c].u
        n == cb[c].n
    IN
    /\ cb[c].pc = "answering"
    /\ \E ok \in BOOLEAN :
        IF ~ok \/ u \notin DOMAIN user_tasks
        THEN /\ cb' = [cb EXCEPT ![c] = IdleCb]
             /\ UNCHANGED <<user_tasks, concurrent_tasks>>
        ELSE IF disk[InPath(u, n)] = 0
        THEN /\ cb' = [cb EXCEPT ![c] = IdleCb]
             /\ concurrent_tasks' = concurrent_tasks + 1
             /\ UNCHANGED user_tasks
        ELSE /\ user_tasks' = [user_tasks EXCEPT ![u] =
                    Put(Put(Put(@, "operation", "compress"),
                            "file_path", InPath(u, n)), "format", "zip")]
             /\ concurrent_tasks' = concurrent_tasks + 1
             /\ cb' = [cb EXCEPT ![c].pc = "progress_msg", ![c].incs = @ + 1]
    /\ UNCHANGED <<msg, eng, ui, files, disk, buttons, hd, task, events>>

\* handlers.py:170-193: callback.answer() returned or raised; the file
\* check, the entry update and the increment
cb_check(c) ==
    LET u == cb[c].u
        n == cb[c].n
    IN
    /\ cb[c].pc = "answering"
    /\ \E ok \in BOOLEAN :
        IF ~ok \/ u \notin DOMAIN user_tasks
        THEN /\ cb' = [cb EXCEPT ![c] = IdleCb]
             /\ UNCHANGED <<user_tasks, concurrent_tasks>>
        ELSE IF disk[InPath(u, n)] = 0
        THEN \* :178 the reply "File not found", then return
             /\ cb' = [cb EXCEPT ![c] = IdleCb]
             /\ UNCHANGED <<user_tasks, concurrent_tasks>>
        ELSE /\ user_tasks' = [user_tasks EXCEPT ![u] =
                    Put(Put(Put(@, "operation", "compress"),
                            "file_path", InPath(u, n)), "format", "zip")]
             /\ concurrent_tasks' = concurrent_tasks + 1
             /\ cb' = [cb EXCEPT ![c].pc = "progress_msg", ![c].incs = @ + 1]
    /\ UNCHANGED <<msg, eng, ui, files, disk, buttons, hd, task, events>>

\* handlers.py:191-211: the progress message was sent; the task is created
\* and registered, the handler awaits it
cb_start_task(c) ==
    LET u == cb[c].u IN
    /\ cb[c].pc = "progress_msg"
    /\ \E ok \in BOOLEAN :
        IF ok
        THEN /\ task' = [task EXCEPT ![c].st = "created"]
             /\ user_tasks' = [user_tasks EXCEPT ![u] = Put(@, "task", c)]
             /\ cb' = [cb EXCEPT ![c].pc = "await_task"]
        ELSE /\ cb' = [cb EXCEPT ![c].pc = "except_err"]
             /\ UNCHANGED <<task, user_tasks>>
    /\ UNCHANGED <<msg, eng, ui, files, concurrent_tasks, disk, buttons, hd, events>>

\* handlers.py:211-215: the awaited task finished
cb_task_done(c) ==
    LET u == cb[c].u
        n == cb[c].n
    IN
    /\ cb[c].pc = "await_task"
    /\ Done(c)
    /\ IF task[c].result = "cancelled"
       THEN /\ cb' = [cb EXCEPT ![c].pc = "except_cancel"]
            /\ UNCHANGED user_tasks
       ELSE IF task[c].result = "error" \/ "temp_files" \notin DOMAIN user_tasks[u]
       THEN /\ cb' = [cb EXCEPT ![c].pc = "except_err"]
            /\ UNCHANGED user_tasks
       ELSE /\ user_tasks' = [user_tasks EXCEPT ![u] =
                    Put(@, "temp_files", Append(@.temp_files, OutPath(n)))]
            /\ cb' = [cb EXCEPT ![c].pc = "complete_msg"]
    /\ UNCHANGED <<msg, eng, ui, files, concurrent_tasks, disk, buttons, hd, task,
                   events>>

\* handlers.py:215-229: the size check and the start of the delivery
cb_deliver(c) ==
    /\ cb[c].pc = "complete_msg"
    /\ \E ok \in BOOLEAN :
        IF ok /\ disk[OutPath(cb[c].n)] # 0
        THEN cb' = [cb EXCEPT ![c].pc = "sending"]
        ELSE cb' = [cb EXCEPT ![c].pc = "except_err"]
    /\ UNCHANGED <<msg, eng, ui, files, user_tasks, concurrent_tasks, disk, buttons, hd, task, events>>

\* handlers.py:225-239 and 246-248: the delivery returned; the clean-up of
\* the success path and the finally block
cb_cleanup(c) ==
    LET u == cb[c].u IN
    /\ cb[c].pc = "sending"
    /\ \E ok \in BOOLEAN :
        IF ok
        THEN /\ disk' = ReleaseFiles(
                    RemoveAll(disk, Range(TempFiles(user_tasks[u]))), c)
             /\ user_tasks' =
                    ReleaseHandle([user_tasks EXCEPT ![u] = EmptyDict], c)
             /\ concurrent_tasks' = concurrent_tasks - 1
             /\ cb' = [cb EXCEPT ![c] = IdleCb]
             /\ task' = [task EXCEPT ![c] = NoTask]
        ELSE /\ cb' = [cb EXCEPT ![c].pc = "except_err"]
             /\ UNCHANGED <<disk, user_tasks, concurrent_tasks, task>>
    /\ UNCHANGED <<msg, eng, ui, files, buttons, hd, events>>

\* cb_except without the finally block of :246-248
cb_except_no_finally(c) ==
    /\ cb[c].pc \in {"except_err", "except_cancel"}
    /\ cb' = [cb EXCEPT ![c] = IdleCb]
    /\ task' = [task EXCEPT ![c] = NoTask]
    /\ user_tasks' = ReleaseHandle(user_tasks, c)
    /\ disk' = ReleaseFiles(disk, c)
    /\ UNCHANGED <<msg, eng, ui, files, concurrent_tasks, buttons, hd, events>>

\* handlers.py:241-248: an except block replies, then the finally block
cb_except(c) ==
    /\ cb[c].pc \in {"except_err", "except_cancel"}
    /\ concurrent_tasks' = concurrent_tasks - 1
    /\ cb' = [cb EXCEPT ![c] = IdleCb]
    /\ task' = [task EXCEPT ![c] = NoTask]
    /\ user_tasks' = ReleaseHandle(user_tasks, c)
    /\ disk' = ReleaseFiles(disk, c)
    /\ UNCHANGED <<msg, eng, ui, files, buttons, hd, events>>

\* ---------------------------------------------------------- compress_file
\* The except clauses of compress_file lie after the last line of
\* src/zip-utils.py that is available; spec.md 4.3: "any files opened for
\* writing in this call must be closed/removed before returning".
compress_file_except(d, n) == RemoveAll(d, {OutPath(n), ChunkPath(n)})

\* the task ends; k keeps the number of chunks it had added to the archive
Finish(c, result) ==
    [task EXCEPT ![c].st = "done", ![c].result = result,
                 ![c].cancel_req = FALSE]

\* zip-utils.py:69-110: one step of the engine task, from await to await
task_step(c) ==
    LET u == cb[c].u
        n == cb[c].n
        t == task[c]
    IN
    /\ Live(c)
    /\ IF t.cancel_req
       THEN \* CancelledError is raised at the await the task is suspended in;
            \* a task cancelled before its first step never runs
            /\ task' = Finish(c, "cancelled")
            /\ disk' = IF t.st = "created" THEN disk
                       ELSE compress_file_except(disk, n)
       ELSE CASE t.st = "created" ->
                 \* :76 ZipFile(output_path, 'w'), :78 getsize, :81 open
                 IF disk[InPath(u, n)] = 0
                 THEN /\ task' = Finish(c, "error")
                      /\ disk' = compress_file_except(disk, n)
                 ELSE /\ task' = [task EXCEPT ![c].st = "loop"]
                      /\ disk' = [disk EXCEPT ![OutPath(n)] = c]
              [] t.st = "loop" ->
                 \* :90-96 read a chunk and write it to the chunk file,
                 \* :91-92 and :108-110 at the end of the input
                 IF t.k < NumChunks
                 THEN /\ task' = [task EXCEPT ![c].st = "chunk"]
                      /\ disk' = [disk EXCEPT ![ChunkPath(n)] = c]
                 ELSE /\ task' = [task EXCEPT ![c].st = "closing"]
                      /\ disk' = RemoveAll(disk, {ChunkPath(n)})
              [] t.st = "chunk" ->
                 \* :99-106 zipf.write(temp_chunk_path), progress, sleep(0)
                 IF disk[ChunkPath(n)] = 0
                 THEN /\ task' = Finish(c, "error")
                      /\ disk' = compress_file_except(disk, n)
                 ELSE /\ task' = [task EXCEPT ![c].st = "loop", ![c].k = @ + 1]
                      /\ disk' = disk
              [] t.st = "closing" ->
                 \* the files are closed, output_path is returned
                 /\ task' = Finish(c, "ok")
                 /\ disk' = disk
    /\ UNCHANGED <<msg, eng, ui, files, user_tasks, concurrent_tasks, buttons, hd, cb,
                   events>>

\* ------------------------------- the float arithmetic of zip-utils.py:46
\* Python's float is the IEEE 754 binary64 format: 53 significant binary
\* digits, every operation rounded to nearest, ties to even.  A float
\* 0 < x is kept as [sig, z], x = sig * 2^(-z - 52), where sig is a number
\* of five digits <<top, a, b, c, d>> in base Limb = 2^13:
\* top * 2^52 + a * 2^39 + b * 2^26 + c * 2^13 + d.
Limb == 8192

RECURSIVE Pow2(_)
Pow2(i) == IF i = 0 THEN 1 ELSE 2 * Pow2(i - 1)

\* the carries of one digit into the next
Norm(s) ==
    LET c == s[4] + s[5] \div Limb
        b == s[3] + c \div Limb
        a == s[2] + b \div Limb
    IN  <<s[1] + a \div Limb, a % Limb, b % Limb, c % Limb, s[5] % Limb>>

\* the number of binary digits of i > 0
BitLen(i) == CHOOSE k \in 1..31 : Pow2(k - 1) <= i /\ i < Pow2(k)

\* p / t of two ints 0 < p < t: 2^z * p / t lies in [1, 2); its 52 digits
\* after the point by long division, then the rounding on the 53rd
TrueDiv(p, t) ==
    LET z  == CHOOSE k \in 1..31 : Pow2(k) * p >= t /\ Pow2(k - 1) * p < t
        r0 == Pow2(z) * p - t
        a  == (r0 * Limb) \div t
        r1 == (r0 * Limb) % t
        b  == (r1 * Limb) \div t
        r2 == (r1 * Limb) % t
        c  == (r2 * Limb) \div t
        r3 == (r2 * Limb) % t
        d  == (r3 * Limb) \div t
        r4 == (r3 * Limb) % t
        up == 2 * r4 > t \/ (2 * r4 = t /\ d % 2 = 1)
    IN  [sig |-> Norm(<<1, a, b, c, IF up THEN d + 1 ELSE d>>), z |-> z]

\* x * 100 of a float x: the exact product, cut to 53 significant digits
FloatMul100(x) ==
    LET s    == Norm(<<100 * x.sig[1], 100 * x.sig[2], 100 * x.sig[3],
                       100 * x.sig[4], 100 * x.sig[5]>>)
        cut  == Pow2(BitLen(s[1]) - 1)
        low  == s[5] % cut
        keep == s[5] - low
        up   == 2 * low > cut \/ (2 * low = cut /\ (keep \div cut) % 2 = 1)
    IN  [sig |-> Norm(<<s[1], s[2], s[3], s[4],
                        IF up THEN keep + cut ELSE keep>>),
         z |-> x.z]

\* int(x) of a float x >= 0 with z >= 0: the digits before the point
IntOf(x) == x.sig[1] \div Pow2(x.z)

\* zip-utils.py:46  min(int((processed_size / total_size) * 100), 100);
\* processed_size >= total_size gives a quotient >= 1.0 and so 100
Percent(processed_size, total_size) ==
    IF processed_size >= total_size THEN 100
    ELSE IF processed_size = 0 THEN 0
    ELSE LET v == IntOf(FloatMul100(TrueDiv(processed_size, total_size)))
         IN  IF v < 100 THEN v ELSE 100

\* Percent of every processed_size <= total_size of the bounds, computed
\* once
PercentOf == [t \in 1..MaxSize |-> [p \in 1..t |-> Percent(p, t)]]

\* ------------------------------------------------------- update_progress
\* update_progress with the percent taken from the chunk alone
update_progress_chunk_only(e, chunk_size) ==
    LET processed_size == e.processed_size + chunk_size IN
    IF e.total_size > 0
    THEN [e EXCEPT !.processed_size = processed_size,
                   !.emitted = Append(@, PercentOf[e.total_size][chunk_size])]
    ELSE [e EXCEPT !.processed_size = processed_size]

\* zip-utils.py:39-47  CompressionTask.update_progress; canceled is never
\* set, the progress callback is always given (handlers.py:207)
update_progress(e, chunk_size) ==
    LET processed_size == e.processed_size + chunk_size IN
    IF e.total_size > 0
    THEN [e EXCEPT !.processed_size = processed_size,
                   !.emitted =
                        Append(@, PercentOf[e.total_size][processed_size])]
    ELSE [e EXCEPT !.processed_size = processed_size]

\* --------------------------------------- compress_file, byte by byte
Min(a, b) == IF a < b THEN a ELSE b

\* zip-utils.py:69-81: CompressionTask(...) measures the file (:36), the
\* archive is created empty, the input is opened
compress_file_open ==
    /\ eng.pc = "start"
    /\ eng' = [eng EXCEPT !.pc = "read", !.total_size = eng.size]
    /\ UNCHANGED <<msg, ui, files, user_tasks, concurrent_tasks, disk, buttons, hd,
                   cb, task, events>>

\* compress_file_read that goes on only when every edit it has asked for
\* has ended, as if update_progress awaited the callback
compress_file_read_awaits ==
    LET len == Min(eng.chunk_size, eng.size - eng.bytes_read) IN
    /\ eng.pc = "read"
    /\ ui.done = Len(eng.emitted)
    /\ IF len = 0
       THEN eng' = [eng EXCEPT !.pc = "returned", !.chunk = <<>>]
       ELSE eng' = [eng EXCEPT !.pc = "add",
                      !.chunk = <<eng.bytes_read, eng.bytes_read + len>>]
    /\ UNCHANGED <<msg, ui, files, user_tasks, concurrent_tasks, disk, buttons, hd,
                   cb, task, events>>

\* zip-utils.py:90-96 and 108-110: f.read(chunk_size) returned; at the end
\* of the input the chunk file is removed and the archive closed, else the
\* chunk is written to the chunk file
compress_file_read ==
    LET len == Min(eng.chunk_size, eng.size - eng.bytes_read) IN
    /\ eng.pc = "read"
    /\ IF len = 0
       THEN eng' = [eng EXCEPT !.pc = "returned", !.chunk = <<>>]
       ELSE eng' = [eng EXCEPT !.pc = "add",
                      !.chunk = <<eng.bytes_read, eng.bytes_read + len>>]
    /\ UNCHANGED <<msg, ui, files, user_tasks, concurrent_tasks, disk, buttons, hd,
                   cb, task, events>>

\* zip-utils.py:99-106: zipf.write(temp_chunk_path, file_name) adds the
\* chunk file as a member named file_name, then update_progress, sleep(0)
compress_file_add ==
    LET len == eng.chunk[2] - eng.chunk[1] IN
    /\ eng.pc = "add"
    /\ eng' = update_progress(
                [eng EXCEPT !.pc = "read",
                    !.members = Append(@, [arcname |-> "file_name",
                                           from |-> eng.chunk[1],
                                           to |-> eng.chunk[2]]),
                    !.bytes_read = @ + len],
                len)
    /\ UNCHANGED <<msg, ui, files, user_tasks, concurrent_tasks, disk, buttons, hd,
                   cb, task, events>>

EngineNext == compress_file_open \/ compress_file_read \/ compress_file_add

\* ---------------------------------- update_progress of compress_callback
\* handlers.py:196-202: the oldest edit task not yet started runs up to its
\* await of bot.edit_message_text
edit_start ==
    /\ ui.fwd < Len(eng.emitted)
    /\ ui' = [ui EXCEPT !.fwd = @ + 1, !.last_fwd = ui.now,
                        !.pending = @ \cup {ui.fwd + 1}]
    /\ UNCHANGED <<msg, eng, files, user_tasks, concurrent_tasks, disk, buttons, hd,
                   cb, task, events>>

\* handlers.py:198-204: one of the edits in flight returned, the message
\* now showing its percent, or raised and was logged; the edits are
\* separate tasks awaiting separate requests, any of them may end first
edit_done ==
    /\ ui.done < ui.fwd
    /\ \E i \in ui.pending, ok \in BOOLEAN :
        ui' = [ui EXCEPT !.done = @ + 1, !.pending = @ \ {i},
                         !.shown = IF ok THEN Append(@, eng.emitted[i])
                                         ELSE @]
    /\ UNCHANGED <<msg, eng, files, user_tasks, concurrent_tasks, disk, buttons, hd,
                   cb, task, events>>

\* one minimum interval passes
tick ==
    /\ ui.now < MaxTime
    /\ ui' = [ui EXCEPT !.now = @ + 1]
    /\ UNCHANGED <<msg, eng, files, user_tasks, concurrent_tasks, disk, buttons, hd,
                   cb, task, events>>

\* handlers.py:211-215: the task is done, compress_callback goes on from
\* its await and sends the completion message.  The edit tasks were made
\* ready before the task's last steps and have all run up to their await.
completion_message ==
    /\ eng.pc = "returned"
    /\ ui.fwd = Len(eng.emitted)
    /\ ~ui.completed
    /\ ui' = [ui EXCEPT !.completed = TRUE]
    /\ UNCHANGED <<msg, eng, files, user_tasks, concurrent_tasks, disk, buttons, hd,
                   cb, task, events>>

\* ------------------------------------------------- src/strings.py
\* A template is the sequence of its parts as str.format reads them: the
\* literal text and the replacement fields.  The wording of the texts is
\* left out: the i-th text of the template of key k in language l is the
\* token <<l, k, i>>.
Text(l, k, i) == [kind |-> "text", v |-> <<l, k, i>>]
\* "{}": the field without a name is numbered by str.format and looked up
\* in the positional arguments
Auto == [kind |-> "field", name |-> "", spec |-> ""]
\* "{:.2f}"
Auto2f == [kind |-> "field", name |-> "", spec |-> ".2f"]

\* strings.py:6-39 and 42-75: the keys of both languages
Keys ==
    {"start", "help", "file_received", "processing", "compressing",
     "extracting", "compression_complete", "extraction_complete",
     "extraction_too_many_files", "task_cancelled", "no_active_task",
     "error_unsupported_format", "error_processing", "error_file_corrupted",
     "error_extraction", "error_compression", "compress_format_select",
     "file_too_large_telegram", "split_part", "preview_content",
     "error_general", "timeout"}

\* the replacement fields of the template of key k, the same in "en" and
\* in "fa"
Fields(k) ==
    CASE k = "file_received" -> <<Auto, Auto2f>>
      [] k \in {"compressing", "split_part"} -> <<Auto, Auto>>
      [] k \in {"extracting", "extraction_too_many_files",
                "error_processing", "error_compression", "preview_content",
                "error_general"} -> <<Auto>>
      [] OTHER -> <<>>

\* strings.py:4-77
MESSAGES ==
    [l \in {"en", "fa"} |->
        [k \in Keys |->
            [i \in 1..(2 * Len(Fields(k)) + 1) |->
                IF i % 2 = 1 THEN Text(l, k, (i + 1) \div 2)
                             ELSE Fields(k)[i \div 2]]]]

\* the keyword names the handlers pass (src/handlers.py:107-319)
ArgNames ==
    {"error", "format", "progress", "file_name", "file_size_mb", "count"}

\* a key that is in no table
UnknownKey == "unknown_key"
\* the languages a requester can have: the two of the table and another
Langs == {"en", "fa", "de"}

\* what str.format does on the replacement field f with no positional
\* argument and the keyword arguments kwargs
FieldError(f, kwargs) ==
    IF f.name = "" THEN "IndexError"
    ELSE IF f.name \notin DOMAIN kwargs THEN "KeyError"
    ELSE "none"

\* message.format(**kwargs): the fields are replaced from left to right,
\* the first that cannot be looked up raises
Format(message, kwargs) ==
    LET bad == {i \in DOMAIN message :
                    /\ message[i].kind = "field"
                    /\ FieldError(message[i], kwargs) # "none"}
    IN  IF bad # {}
        THEN LET i == CHOOSE j \in bad : \A h \in bad : j <= h
             IN  [exc |-> FieldError(message[i], kwargs), text |-> <<>>]
        ELSE [exc |-> "none",
              text |-> [i \in DOMAIN message |->
                          IF message[i].kind = "field"
                          THEN [kind |-> "text",
                                v |-> <<"value", kwargs[message[i].name],
                                        message[i].spec>>]
                          ELSE message[i]]]

\* strings.py:92-96: the language falls back to "en", the template to the
\* key itself
Lookup(key, lang) ==
    LET l == IF lang \notin DOMAIN MESSAGES THEN "en" ELSE lang
    IN  IF key \in DOMAIN MESSAGES[l] THEN MESSAGES[l][key]
        ELSE <<[kind |-> "text", v |-> <<"key", key, 1>>]>>

\* strings.py:79-105
get_message ==
    /\ msg.pc = "call"
    /\ LET message == Lookup(msg.key, msg.lang)
           r == Format(message, msg.kwargs)
       IN  msg' =
            IF DOMAIN msg.kwargs # {}
            THEN IF r.exc = "none"
                 THEN [msg EXCEPT !.pc = "returned", !.value = r.text]
                 ELSE IF r.exc \in {"KeyError", "ValueError"}
                 THEN [msg EXCEPT !.pc = "returned", !.value = message]
                 ELSE [msg EXCEPT !.pc = "raised", !.exc = r.exc]
            ELSE [msg EXCEPT !.pc = "returned", !.value = message]
    /\ UNCHANGED <<eng, ui, files, user_tasks, concurrent_tasks, disk, buttons,
                   hd, cb, task, events>>

\* ------------------------------------------------------------------ Next
Next ==
    \/ \E u \in Users, n \in Names : handle_document(u, n)
    \/ \E u \in Users : hd_rejected(u)
    \/ \E u \in Users : hd_download(u)
    \/ \E u \in Users : hd_finish(u)
    \/ \E u \in Users : hd_except(u)
    \/ \E u \in Users : cmd_cancel(u)
    \/ \E c \in Slots, u \in Users, n \in Names : cb_start(c, u, n)
    \/ \E c \in Slots : cb_check(c)
    \/ \E c \in Slots : cb_start_task(c)
    \/ \E c \in Slots : cb_task_done(c)
    \/ \E c \in Slots : cb_deliver(c)
    \/ \E c \in Slots : cb_cleanup(c)
    \/ \E c \in Slots : cb_except(c)
    \/ \E c \in Slots : task_step(c)

Spec == Init /\ [][Next]_vars

\* compress_file alone, on every file size and chunk size of the bounds
ProgressInit ==
    /\ files = {<<1, 1>>}
    /\ user_tasks = [u \in {} |-> EmptyDict]
    /\ concurrent_tasks = 0
    /\ disk = [p \in Paths |-> 0]
    /\ buttons = {}
    /\ hd = [u \in Users |-> [pc |-> "idle", n |-> 0]]
    /\ cb = [c \in Slots |-> IdleCb]
    /\ task = [c \in Slots |-> NoTask]
    /\ events = 0
    /\ \E size \in 0..MaxSize, chunk_size \in 1..MaxChunkSize :
            eng = [NoEngine EXCEPT !.pc = "start", !.size = size,
                                   !.chunk_size = chunk_size]
    /\ ui = NoEdits
    /\ msg = NoCall

ProgressSpec == ProgressInit /\ [][EngineNext]_vars

\* compress_file and the message edits it asks for
EditInit ==
    /\ files = {<<1, 1>>}
    /\ user_tasks = [u \in {} |-> EmptyDict]
    /\ concurrent_tasks = 0
    /\ disk = [p \in Paths |-> 0]
    /\ buttons = {}
    /\ hd = [u \in Users |-> [pc |-> "idle", n |-> 0]]
    /\ cb = [c \in Slots |-> IdleCb]
    /\ task = [c \in Slots |-> NoTask]
    /\ events = 0
    /\ \E size \in 0..MaxEditSize, chunk_size \in 1..MaxChunkSize :
            eng = [NoEngine EXCEPT !.pc = "start", !.size = size,
                                   !.chunk_size = chunk_size]
    /\ ui = NoEdits
    /\ msg = NoCall

EditNext ==
    EngineNext \/ edit_start \/ edit_done \/ tick \/ completion_message

EditSpec == EditInit /\ [][EditNext]_vars

\* the event loop runs every task that is ready: the awaits of compress_file
\* (file reads and writes, sleep(0)) end; nothing makes an edit end
FairEditSpec == EditSpec /\ WF_vars(EngineNext)

\* get_message alone, on every key, language and set of keyword arguments
MessageInit ==
    /\ files = {<<1, 1>>}
    /\ user_tasks = [u \in {} |-> EmptyDict]
    /\ concurrent_tasks = 0
    /\ disk = [p \in Paths |-> 0]
    /\ buttons = {}
    /\ hd = [u \in Users |-> [pc |-> "idle", n |-> 0]]
    /\ cb = [c \in Slots |-> IdleCb]
    /\ task = [c \in Slots |-> NoTask]
    /\ events = 0
    /\ eng = NoEngine
    /\ ui = NoEdits
    /\ \E key \in Keys \cup {UnknownKey}, lang \in Langs,
          names \in SUBSET ArgNames :
            msg = [NoCall EXCEPT !.pc = "call", !.key = key, !.lang = lang,
                                 !.kwargs = [a \in names |-> a]]

MessageSpec == MessageInit /\ [][get_message]_vars

\* ================================================================= claims
\* the step is the return of the compress_callback execution of slot c
Exits(c) == cb[c].pc # "idle" /\ cb'[c].pc = "idle"

\* C1: in every reachable state concurrent_tasks is at most
\* MAX_CONCURRENT_TASKS.
CounterWithinCap == concurrent_tasks <= MAX_CONCURRENT_TASKS

\* C2: an execution of compress_callback increments the counter at most
\* once; the step on which it exits lowers the counter by exactly the
\* number of increments it made (1 after the increment, 0 before it), and
\* no other step of the execution lowers it.
DecrementOncePerIncrement ==
    [][\A c \in Slots :
          /\ cb[c].incs \in {0, 1}
          /\ Exits(c) => concurrent_tasks' = concurrent_tasks - cb[c].incs
          /\ (~Exits(c) /\ cb'[c].pc # cb[c].pc) =>
                concurrent_tasks' =
                    concurrent_tasks + (cb'[c].incs - cb[c].incs)]_vars

\* C2 case: an execution has set the operation keys and taken its
\* increment, has left through an except block, and the counter is back
\* at 0 with no handler in progress.
IncrementedAndReleased ==
    /\ \E u \in DOMAIN user_tasks : "operation" \in DOMAIN user_tasks[u]
    /\ \A c \in Slots : cb[c].pc = "idle"
    /\ concurrent_tasks = 0

\* C3: for every requester at most one engine task started on the
\* requester's behalf is live.
OneLiveOperationPerRequester ==
    \A u \in Users : Cardinality({c \in Slots : cb[c].u = u /\ Live(c)}) <= 1

\* C4: a submission made while the requester's registered task is not done
\* is answered with the rejection and returns; neither step changes
\* user_tasks, concurrent_tasks, the disk, the tasks or the callbacks.
RejectedWhileActive ==
    [][\A u \in Users :
          /\ \A n \in Names :
                (ActiveTask(u) /\ handle_document(u, n)) =>
                    /\ hd'[u].pc = "busy"
                    /\ UNCHANGED <<user_tasks, concurrent_tasks, disk,
                                   buttons, cb, task>>
          /\ (hd[u].pc = "busy" /\ hd'[u] # hd[u]) =>
                    /\ hd'[u].pc = "idle"
                    /\ UNCHANGED <<user_tasks, concurrent_tasks, disk,
                                   buttons, cb, task>>]_vars

\* C4 case: the rejection is being sent to a requester whose task is live.
RejectionWhileActiveSent ==
    \E u \in Users : hd[u].pc = "busy" /\ ActiveTask(u)

\* C5: a submission made while concurrent_tasks >= MAX_CONCURRENT_TASKS is
\* rejected and returns without creating or replacing an entry, adding a
\* path to a manifest or changing the counter.
RejectedAtCap ==
    [][\A u \in Users :
          /\ \A n \in Names :
                (concurrent_tasks >= MAX_CONCURRENT_TASKS
                    /\ handle_document(u, n)) =>
                    /\ hd'[u].pc \in {"busy", "full"}
                    /\ UNCHANGED <<user_tasks, concurrent_tasks, disk,
                                   buttons, cb, task>>
          /\ (hd[u].pc = "full" /\ hd'[u] # hd[u]) =>
                    /\ hd'[u].pc = "idle"
                    /\ UNCHANGED <<user_tasks, concurrent_tasks, disk,
                                   buttons, cb, task>>]_vars

\* C5 case: the cap rejection is being sent to a requester without a live
\* task while the counter is at the cap.
RejectionAtCapSent ==
    \E u \in Users :
        /\ hd[u].pc = "full"
        /\ ~ActiveTask(u)
        /\ concurrent_tasks >= MAX_CONCURRENT_TASKS

\* C6: when an execution of compress_callback that started its operation
\* exits, every path of the requester's manifest is gone from the disk and
\* the requester's entry is empty.
CleanupOnEveryExit ==
    [][\A c \in Slots :
          (cb[c].incs = 1 /\ Exits(c)) =>
              /\ user_tasks'[cb[c].u] = EmptyDict
              /\ \A p \in Range(TempFiles(user_tasks[cb[c].u])) :
                    disk'[p] = 0]_vars

\* C7: cmd_cancel issued while the requester's task is live leaves every
\* file on disk as it is.
CancelDeletesNoFile ==
    [][\A u \in Users : (ActiveTask(u) /\ cmd_cancel(u)) => disk' = disk]_vars

\* C8: cmd_cancel takes the task_cancelled branch exactly when the
\* requester's registered task is not done; otherwise it changes neither
\* user_tasks, the counter, the disk nor the tasks.
CancelReportsLiveTask ==
    [][\A u \in Users :
          cmd_cancel(u) =>
              /\ cmd_cancel_task(u) <=> ActiveTask(u)
              /\ ~ActiveTask(u) =>
                    UNCHANGED <<user_tasks, concurrent_tasks, disk, task>>]_vars

\* C9: an execution whose task was live when its requester issued
\* cmd_cancel never starts the delivery, and exits through the
\* CancelledError block, releasing its slot.
CancelledOutcome ==
    [][\A c \in Slots :
          cb[c].cancel_live =>
              /\ cb'[c].pc # "sending"
              /\ Exits(c) =>
                    /\ cb[c].pc = "except_cancel"
                    /\ concurrent_tasks' = concurrent_tasks - 1]_vars

\* C10: when an execution whose task was cancelled after it had added a
\* chunk to the archive exits through the CancelledError block, the input
\* copy it was started on is gone (unless a later upload wrote the path
\* again) and no output archive or chunk file written by its task is on
\* disk.
NoResidueAfterCancel ==
    [][\A c \in Slots :
          (cb[c].pc = "except_cancel" /\ task[c].k >= 1 /\ Exits(c)) =>
              /\ disk[InPath(cb[c].u, cb[c].n)] = 0 \/ cb[c].redl
              /\ disk[OutPath(cb[c].n)] # c
              /\ disk[ChunkPath(cb[c].n)] # c]_vars

\* C11: while the task registered for a requester runs, the output archive
\* it has created on disk is listed in the requester's manifest.
ArtifactsInManifest ==
    \A c \in Slots :
        LET u == cb[c].u IN
        (/\ cb[c].pc = "await_task"
         /\ u \in DOMAIN user_tasks
         /\ "task" \in DOMAIN user_tasks[u]
         /\ user_tasks[u].task = c
         /\ disk[OutPath(cb[c].n)] = c)
        => OutPath(cb[c].n) \in Range(TempFiles(user_tasks[u]))

\* C12: for a non-empty file the percent values handed to the progress
\* callback lie in 0..100 and never decrease, and when compress_file has
\* returned the last of them is 100.
ProgressMonotone ==
    LET e == eng.emitted IN
    eng.size > 0 =>
        /\ \A i \in 1..Len(e) : e[i] \in 0..100
        /\ \A i \in 1..(Len(e) - 1) : e[i] <= e[i + 1]
        /\ eng.pc = "returned" => (Len(e) > 0 /\ e[Len(e)] = 100)

\* C12 case: compress_file has returned after handing over at least three
\* values, the first below 100.
ProgressSeveralValues ==
    /\ eng.pc = "returned"
    /\ Len(eng.emitted) >= 3
    /\ eng.emitted[1] < 100

\* C13: no percent value is handed to the progress callback twice.
NoRepeatedPercent ==
    \A i, j \in 1..Len(eng.emitted) :
        i # j => eng.emitted[i] # eng.emitted[j]

\* C14: when compress_file has returned for a file of 0 bytes, exactly one
\* value, 100, was handed to the progress callback and the archive holds
\* exactly one member, empty and named after the input.
ZeroByteInput ==
    (eng.pc = "returned" /\ eng.size = 0) =>
        /\ eng.emitted = <<100>>
        /\ eng.members = <<[arcname |-> "file_name", from |-> 0, to |-> 0]>>

\* C15: the k-th percent value is floor(min(k * C, S) * 100 / S), and when
\* compress_file has returned there is one value per chunk.
PercentAtChunkBoundaries ==
    LET S == eng.size
        C == eng.chunk_size
    IN
    S > 0 =>
        /\ \A k \in 1..Len(eng.emitted) :
              eng.emitted[k] = (Min(k * C, S) * 100) \div S
        /\ eng.pc = "returned" => Len(eng.emitted) = (S + C - 1) \div C

\* C16: when compress_file has returned for a non-empty input, the archive
\* holds one member, named after the input, with all the bytes of the
\* input.
WholeInputOneMember ==
    (eng.pc = "returned" /\ eng.size > 0) =>
        eng.members =
            <<[arcname |-> "file_name", from |-> 0, to |-> eng.size]>>

\* the paths an operation uses: handlers.py:125, zip-utils.py:71 and :87
OpPaths(c) ==
    {InPath(cb[c].u, cb[c].n), OutPath(cb[c].n), ChunkPath(cb[c].n)}

\* C17: two operations that are live at the same time use no path in
\* common.
DisjointPaths ==
    \A c1, c2 \in Slots :
        (c1 # c2 /\ Live(c1) /\ Live(c2)) => OpPaths(c1) \cap OpPaths(c2) = {}

\* C18: compress_file returns, whether or not the edits it has asked for
\* ever end.
EngineTerminates == <>(eng.pc = "returned")

\* C18 case: compress_file has returned while an edit it asked for has not
\* ended.
ReturnedBeforeEdit ==
    /\ eng.pc = "returned"
    /\ Len(eng.emitted) >= 2
    /\ ui.done < Len(eng.emitted)

\* C19: an edit other than the final 100 is handed to the presentation
\* layer only when a minimum interval has passed since the one before.
EditsRateLimited ==
    [][(edit_start /\ eng.emitted[ui.fwd + 1] # 100 /\ ui.last_fwd >= 0)
            => ui.now > ui.last_fwd]_vars

\* the executions that have passed the increment of :188 and not yet run
\* the finally block of :246-248
AfterIncrement ==
    {c \in Slots : cb[c].pc \in {"progress_msg", "await_task", "complete_msg",
                                 "sending", "except_err", "except_cancel"}}

InputsInManifest ==
    \A u \in Users, n \in Names :
        disk[InPath(u, n)] # 0 =>
            /\ u \in DOMAIN user_tasks
            /\ InPath(u, n) \in Range(TempFiles(user_tasks[u]))

\* C22: the percent values the progress message displays never decrease,
\* and when the completion message is sent no edit to 100 is still in
\* flight.
DisplayNeverRegresses ==
    /\ \A i, j \in DOMAIN ui.shown :
            i < j => ui.shown[i] <= ui.shown[j]
    /\ ui.completed => \A i \in ui.pending : eng.emitted[i] # 100

\* C23: get_message never raises; it returns the formatted template, and
\* the unformatted template when formatting with the keyword arguments
\* fails.
GetMessageNeverRaises ==
    /\ msg.pc # "raised"
    /\ msg.pc = "returned" =>
        LET message == Lookup(msg.key, msg.lang)
            r == Format(message, msg.kwargs)
        IN  msg.value = IF r.exc = "none" THEN r.text ELSE message

====
